---- MODULE Spec2Model ----
(***************************************************************************)
(* Model of src/lib/language_models.py: the six driver classes LLM,        *)
(* BatchLLM, BatchLLMForward, LLMForward, LLMForwardMultiprocessing and     *)
(* LLMForwardLight.                                                        *)
(*                                                                         *)
(* Tensors are functions over 0-based index ranges (a [b, len] tensor is   *)
(* [0..b-1 -> [0..len-1 -> Int]]), so that index arithmetic reads as in    *)
(* the source.  Python lists are sequences.  The underlying model and the  *)
(* tokenizer are external: every model call is a step whose outcome (ok or *)
(* RuntimeError) and whose output are chosen from bounded sets.            *)
(***************************************************************************)
EXTENDS Integers, Sequences, FiniteSets, TLC

VARIABLES
    pc,              \* position of the current call: idle, loop, returned, raised
    cls,             \* the class whose method is running
    batch,           \* the caller's prompt list (a Python list, passed by reference)
    args,            \* the arguments of the current call
    input_ids,       \* local: the tensor of token ids built by the call
    attention_masks, \* local: the matching attention mask
    i,               \* local: loop index of the chunk loop
    output_logits,   \* local: list of per-chunk results
    tokenizer,       \* self.tokenizer, configured once by __init__
    init_args,       \* history: the arguments __init__ was called with
    caller,          \* history: the caller's list as first built, and the
                     \* non-empty original_prompt of every __call__ since
    calls,           \* the calls made to the underlying model, in order
    result,          \* the value returned (when pc = "returned")
    error            \* the exception that left the call (when pc = "raised")

vars == <<pc, cls, batch, args, input_ids, attention_masks, i, output_logits,
          tokenizer, init_args, caller, calls, result, error>>

(***************************************************************************)
(* Bounds                                                                  *)
(***************************************************************************)
MaxCopies == 4
MaxSubBatch == 2
MaxBatch == 2
NumSeeds == 2

Seeds == 0 .. (NumSeeds - 1)

(***************************************************************************)
(* Tensor helpers                                                          *)
(***************************************************************************)
Min(a, b) == IF a < b THEN a ELSE b

\* len(t): the size of the first axis
Rows(t) == Cardinality(DOMAIN t)

\* the 0-based tensor holding the elements of a sequence
T(seq) == [k \in 0 .. (Len(seq) - 1) |-> seq[k + 1]]

\* t[lo:hi] for 0 <= lo <= hi: Python clips the slice to the tensor
PySlice(t, lo, hi) ==
    LET l == Min(lo, Rows(t))
        h == Min(hi, Rows(t))
    IN  [k \in 0 .. (h - l - 1) |-> t[l + k]]

\* t.repeat(n, 1), and equally torch.cat of n deep copies of t along axis 0
Repeat(t, n) == [k \in 0 .. (n * Rows(t) - 1) |-> t[k % Rows(t)]]

\* torch.cat([a, b], axis=0)
Cat2Swapped(a, b) ==
    [k \in 0 .. (Rows(a) + Rows(b) - 1) |->
        IF k < Rows(b) THEN b[k] ELSE a[k - Rows(b)]]

Cat2(a, b) ==
    [k \in 0 .. (Rows(a) + Rows(b) - 1) |->
        IF k < Rows(a) THEN a[k] ELSE b[k - Rows(a)]]

\* torch.cat(list, axis=0) of a non-empty list of tensors
RECURSIVE Cat(_)
Cat(list) ==
    IF Len(list) = 1 THEN list[1]
    ELSE Cat2(Cat(SubSeq(list, 1, Len(list) - 1)), list[Len(list)])

(***************************************************************************)
(* The tokenizer (external).  Its vocabulary: four special tokens and the  *)
(* text tokens "a", "b", "ab".  Text is a sequence of characters.  Encoding *)
(* puts <s> first and matches the longest token greedily; decoding with     *)
(* skip_special_tokens=True drops every special token.                      *)
(***************************************************************************)
SpecialTokens == <<"<unk>", "<s>", "</s>", "[PAD]">>

TokenTexts == << <<"a">>, <<"b">>, <<"a", "b">> >>

VocabSize == Len(SpecialTokens) + Len(TokenTexts)

Vocab == 0 .. (VocabSize - 1)

\* convert_tokens_to_ids for a special token
TokenId(name) == (CHOOSE k \in 1 .. Len(SpecialTokens) : SpecialTokens[k] = name) - 1

SpecialIds == 0 .. (Len(SpecialTokens) - 1)

TextOf(id) == TokenTexts[id - Len(SpecialTokens) + 1]

IsPrefix(p, text) == Len(p) <= Len(text) /\ SubSeq(text, 1, Len(p)) = p

RECURSIVE EncodeText(_)
EncodeText(text) ==
    IF text = <<>> THEN <<>>
    ELSE LET matches == {k \in 1 .. Len(TokenTexts) : IsPrefix(TokenTexts[k], text)}
             best == CHOOSE k \in matches :
                        \A m \in matches : Len(TokenTexts[m]) <= Len(TokenTexts[k])
         IN  <<Len(SpecialTokens) + best - 1>>
             \o EncodeText(SubSeq(text, Len(TokenTexts[best]) + 1, Len(text)))

\* the ids of one prompt, before padding
Encode(text) == <<TokenId("<s>")>> \o EncodeText(text)

\* tokenizer.decode(ids, skip_special_tokens=True), ids a sequence
RECURSIVE DecodeSeq(_)
DecodeSeq(ids) ==
    IF ids = <<>> THEN <<>>
    ELSE (IF Head(ids) \in SpecialIds THEN <<>> ELSE TextOf(Head(ids)))
         \o DecodeSeq(Tail(ids))

\* the elements of a 0-based row, as a sequence
SeqOf(row) == [k \in 1 .. Rows(row) |-> row[k - 1]]

Decode(row) == DecodeSeq(SeqOf(row))

\* tokenizer.batch_decode(outputs, skip_special_tokens=True)
BatchDecode(outputs) == [k \in 1 .. Rows(outputs) |-> Decode(outputs[k - 1])]

RECURSIVE MaxEncodedLen(_)
MaxEncodedLen(texts) ==
    IF texts = <<>> THEN 0
    ELSE LET m == MaxEncodedLen(Tail(texts))
             l == Len(Encode(Head(texts)))
         IN  IF l > m THEN l ELSE m

\* the ids of every prompt of the batch, before padding
RECURSIVE EncodeBatch(_)
EncodeBatch(texts) ==
    IF texts = <<>> THEN <<>>
    ELSE <<Encode(Head(texts))>> \o EncodeBatch(Tail(texts))

\* self.tokenizer(batch, padding=True, truncation=False, return_tensors='pt')
\* with padding_side = 'left'
Tokenize(tk, texts) ==
    LET width == MaxEncodedLen(texts)
        pad == TokenId(tk.pad_token)
        row == EncodeBatch(texts)
        padded == [k \in 1 .. Len(texts) |->
                      [j \in 1 .. (width - Len(row[k])) |-> pad] \o row[k]]
        mask == [k \in 1 .. Len(texts) |->
                    [j \in 1 .. width |-> IF j <= width - Len(row[k]) THEN 0 ELSE 1]]
    IN  [input_ids |-> T([k \in 1 .. Len(texts) |-> T(padded[k])]),
         attention_mask |-> T([k \in 1 .. Len(texts) |-> T(mask[k])])]

\* __init__: padding side and pad token (the same five lines in every class)
PathNamesLlama(tokenizer_path) ==
    \E k \in 1 .. Len(tokenizer_path) : tokenizer_path[k] \in {"llama", "Llama"}

InitTokenizer(tokenizer_path, loaded_pad_token) ==
    LET t0 == [padding_side |-> "left",
               pad_token |-> loaded_pad_token,
               unk_token |-> "<unk>",
               eos_token |-> "</s>"]
        t1 == IF PathNamesLlama(tokenizer_path)
              THEN [t0 EXCEPT !.pad_token = t0.unk_token]
              ELSE t0
    IN  IF t1.pad_token = "None"
        THEN [t1 EXCEPT !.pad_token = t1.eos_token]
        ELSE t1

\* the tokenizers a driver is constructed on: the path as its words, and the
\* pad token the loaded tokenizer came with ("None" when it has none)
TokenizerPaths == { <<"meta", "Llama", "2", "7b">>, <<"lmsys", "vicuna", "7b">> }

LoadedPadTokens == {"None", "[PAD]"}

\* the prompts the callers are drawn from
Texts == { <<"a">>, <<"b", "a">>, <<"a", "b", "b">> }

(***************************************************************************)
(* The external model's forward pass (self.model(...)): one logits row     *)
(* [len, vocab] per input row.  Noise makes the logits differ from row to  *)
(* row and from pass to pass; seed stands for the pass's randomness.       *)
(***************************************************************************)
LogitValues == <<-2051, -1, 0, 3, 2049>>

LogitValue(seed, r, j, v, tok) ==
    LogitValues[((2 * seed + r + 2 * j + 3 * v + tok) % Len(LogitValues)) + 1]

ModelForward(seed, ids) ==
    [r \in DOMAIN ids |->
        [j \in DOMAIN ids[r] |->
            [v \in Vocab |-> LogitValue(seed, r, j, v, ids[r][j])]]]

Outcomes == {"ok", "RuntimeError"}

(***************************************************************************)
(* Conversion to torch.float16 of an integer-valued float32: 11 bits of    *)
(* significand, round to nearest, ties to even.                            *)
(***************************************************************************)
RECURSIVE Float16Ulp(_)
Float16Ulp(x) == IF x < 2048 THEN 1 ELSE 2 * Float16Ulp(x \div 2)

Float16Abs(x) ==
    LET u == Float16Ulp(x)
        q == x \div u
        r == x % u
    IN  IF 2 * r < u THEN q * u
        ELSE IF 2 * r > u THEN (q + 1) * u
        ELSE IF q % 2 = 0 THEN q * u ELSE (q + 1) * u

Float16(x) == IF x < 0 THEN 0 - Float16Abs(0 - x) ELSE Float16Abs(x)

(***************************************************************************)
(* _get_answer_choice_logits (the two classes carry the same code)         *)
(***************************************************************************)
AnswerChoiceFirstPosition(logits, answer_token_ids) ==
    [r \in 0 .. (Rows(logits) - 1) |->
        [k \in 0 .. (Len(answer_token_ids) - 1) |->
            Float16(logits[r][0][answer_token_ids[k + 1]])]]

LLMForwardMultiprocessing_get_answer_choice_logits(logits, answer_token_ids) ==
    LET num_rows == Rows(logits)
    IN  [r \in 0 .. (num_rows - 1) |->
            [k \in 0 .. (Len(answer_token_ids) - 1) |->
                Float16(logits[r][Rows(logits[r]) - 1][answer_token_ids[k + 1]])]]

LLMForwardLight_get_answer_choice_logits(logits, answer_token_ids) ==
    LET num_rows == Rows(logits)
    IN  [r \in 0 .. (num_rows - 1) |->
            [k \in 0 .. (Len(answer_token_ids) - 1) |->
                Float16(logits[r][Rows(logits[r]) - 1][answer_token_ids[k + 1]])]]

(***************************************************************************)
(* Replicated forward drivers: LLMForward, LLMForwardMultiprocessing,      *)
(* LLMForwardLight (__call__)                                              *)
(***************************************************************************)
ReplicatedDrivers == {"LLMForward", "LLMForwardMultiprocessing", "LLMForwardLight"}

\* the inputs the callers are drawn from
TokenizedInputs ==
    { [input_ids      |-> T(<<T(Encode(text))>>),
       attention_mask |-> T(<<[j \in 0 .. (Len(Encode(text)) - 1) |-> 1]>>)] :
      text \in Texts }

NoiseArgs ==
    { [start_noise_idx |-> 0, end_noise_idx |-> 1, noise_level |-> 1],
      [start_noise_idx |-> 1, end_noise_idx |-> 2, noise_level |-> 2] }

\* candidate token ids: unsorted, with a duplicate, a single one
AnswerIdLists == { <<5, 6, 2>>, <<4, 4>>, <<0>> }

\* range(math.ceil(num_copies // forward_batch_size)): floor division first,
\* so the ceiling has nothing left to round
NumChunksCeil(num_copies, forward_batch_size) ==
    (num_copies + forward_batch_size - 1) \div forward_batch_size

NumChunks(num_copies, forward_batch_size) == num_copies \div forward_batch_size

ForwardArgs(ti, nz, ids, n, s) ==
    [method |-> "__call__",
     tokenized_input |-> ti,
     start_noise_idx |-> nz.start_noise_idx,
     end_noise_idx |-> nz.end_noise_idx,
     noise_level |-> nz.noise_level,
     answer_token_ids |-> ids,
     num_copies |-> n,
     forward_batch_size |-> s]

\* the record of one self.model(...) call of the chunk loop
ForwardCallShiftedWindow(lo, hi, outcome, seed) ==
    LET chunk == PySlice(input_ids, lo, hi)
    IN  [input_ids |-> chunk,
         attention_mask |-> PySlice(attention_masks, lo, hi),
         start_noise_idx |-> args.start_noise_idx + lo,
         end_noise_idx |-> args.end_noise_idx + lo,
         noise_level |-> args.noise_level,
         rows |-> <<lo, hi>>,
         outcome |-> outcome,
         logits |-> IF outcome = "ok" THEN ModelForward(seed, chunk) ELSE <<>>]

ForwardCall(lo, hi, outcome, seed) ==
    LET chunk == PySlice(input_ids, lo, hi)
    IN  [input_ids |-> chunk,
         attention_mask |-> PySlice(attention_masks, lo, hi),
         start_noise_idx |-> args.start_noise_idx,
         end_noise_idx |-> args.end_noise_idx,
         noise_level |-> args.noise_level,
         rows |-> <<lo, hi>>,
         outcome |-> outcome,
         logits |-> IF outcome = "ok" THEN ModelForward(seed, chunk) ELSE <<>>]

\* leaving the chunk loop: torch.cat(output_logits, axis=0); return.
\* torch.cat of an empty list raises RuntimeError, outside any try.
ReturnCatEmptyAllowed(outs) ==
    /\ pc' = "returned"
    /\ result' = IF outs = <<>> THEN <<>> ELSE Cat(outs)
    /\ error' = error

ReturnCat(outs) ==
    IF outs = <<>>
    THEN /\ pc' = "raised"
         /\ error' = "RuntimeError"
         /\ result' = result
    ELSE /\ pc' = "returned"
         /\ result' = Cat(outs)
         /\ error' = error

\* the head of the chunk loop, with i already set to its next value
LoopHead(next_i, num_copies, forward_batch_size, outs) ==
    IF next_i < NumChunks(num_copies, forward_batch_size)
    THEN /\ pc' = "loop"
         /\ UNCHANGED <<result, error>>
    ELSE ReturnCat(outs)

LLMForward_call ==
    /\ pc = "idle"
    /\ \E ti \in TokenizedInputs, nz \in NoiseArgs,
          n \in 0 .. MaxCopies, s \in 1 .. MaxSubBatch :
        /\ cls' = "LLMForward"
        /\ args' = ForwardArgs(ti, nz, <<>>, n, s)
        /\ i' = 0
        /\ output_logits' = <<>>
        /\ IF n = 0
           THEN \* torch.cat of the empty list of copies raises (line 389)
                /\ pc' = "raised"
                /\ error' = "RuntimeError"
                /\ UNCHANGED <<input_ids, attention_masks, result>>
           ELSE /\ input_ids' = Repeat(ti.input_ids, n)
                /\ attention_masks' = Repeat(ti.attention_mask, n)
                /\ LoopHead(0, n, s, <<>>)
    /\ UNCHANGED <<batch, tokenizer, init_args, caller, calls>>

LLMForward_forward ==
    /\ pc = "loop"
    /\ cls = "LLMForward"
    /\ \E outcome \in Outcomes, seed \in Seeds :
        LET call == ForwardCall(i * args.forward_batch_size,
                                (i + 1) * args.forward_batch_size, outcome, seed)
        IN  /\ calls' = Append(calls, call)
            /\ IF outcome = "ok"
               THEN /\ output_logits' = Append(output_logits, call.logits)
                    /\ i' = i + 1
                    /\ LoopHead(i + 1, args.num_copies, args.forward_batch_size,
                                output_logits')
               ELSE \* except RuntimeError: print; return []
                    /\ pc' = "returned"
                    /\ result' = <<>>
                    /\ UNCHANGED <<output_logits, i, error>>
    /\ UNCHANGED <<cls, batch, args, input_ids, attention_masks, tokenizer,
                 init_args, caller>>

LLMForwardMultiprocessing_call ==
    /\ pc = "idle"
    /\ \E ti \in TokenizedInputs, nz \in NoiseArgs, ids \in AnswerIdLists,
          n \in 0 .. MaxCopies, s \in 1 .. MaxSubBatch :
        /\ cls' = "LLMForwardMultiprocessing"
        /\ args' = ForwardArgs(ti, nz, ids, n, s)
        /\ input_ids' = Repeat(ti.input_ids, n)
        /\ attention_masks' = Repeat(ti.attention_mask, n)
        /\ i' = 0
        /\ output_logits' = <<>>
        /\ LoopHead(0, n, s, <<>>)
    /\ UNCHANGED <<batch, tokenizer, init_args, caller, calls>>

LLMForwardMultiprocessing_forward ==
    /\ pc = "loop"
    /\ cls = "LLMForwardMultiprocessing"
    /\ \E outcome \in Outcomes, seed \in Seeds :
        LET call == ForwardCall(i * args.forward_batch_size,
                                (i + 1) * args.forward_batch_size, outcome, seed)
        IN  /\ calls' = Append(calls, call)
            /\ IF outcome = "ok"
               THEN /\ output_logits' = Append(output_logits,
                            LLMForwardMultiprocessing_get_answer_choice_logits(
                                call.logits, args.answer_token_ids))
                    /\ i' = i + 1
                    /\ LoopHead(i + 1, args.num_copies, args.forward_batch_size,
                                output_logits')
               ELSE \* except RuntimeError: print; return []
                    /\ pc' = "returned"
                    /\ result' = <<>>
                    /\ UNCHANGED <<output_logits, i, error>>
    /\ UNCHANGED <<cls, batch, args, input_ids, attention_masks, tokenizer,
                 init_args, caller>>

LLMForwardLight_call ==
    /\ pc = "idle"
    /\ \E ti \in TokenizedInputs, nz \in NoiseArgs, ids \in AnswerIdLists,
          n \in 0 .. MaxCopies, s \in 1 .. MaxSubBatch :
        /\ cls' = "LLMForwardLight"
        /\ args' = ForwardArgs(ti, nz, ids, n, s)
        /\ input_ids' = Repeat(ti.input_ids, n)
        /\ attention_masks' = Repeat(ti.attention_mask, n)
        /\ i' = 0
        /\ output_logits' = <<>>
        /\ LoopHead(0, n, s, <<>>)
    /\ UNCHANGED <<batch, tokenizer, init_args, caller, calls>>

LLMForwardLight_forward ==
    /\ pc = "loop"
    /\ cls = "LLMForwardLight"
    /\ \E outcome \in Outcomes, seed \in Seeds :
        LET call == ForwardCall(i * args.forward_batch_size,
                                (i + 1) * args.forward_batch_size, outcome, seed)
        IN  /\ calls' = Append(calls, call)
            /\ IF outcome = "ok"
               THEN /\ output_logits' = Append(output_logits,
                            LLMForwardLight_get_answer_choice_logits(
                                call.logits, args.answer_token_ids))
                    /\ i' = i + 1
                    /\ LoopHead(i + 1, args.num_copies, args.forward_batch_size,
                                output_logits')
               ELSE \* no try/except in this class: the error leaves the call
                    /\ pc' = "raised"
                    /\ error' = "RuntimeError"
                    /\ UNCHANGED <<output_logits, i, result>>
    /\ UNCHANGED <<cls, batch, args, input_ids, attention_masks, tokenizer,
                 init_args, caller>>

\* the state after construction of a driver; b is the caller's prompt list
Constructed(b) ==
    /\ pc = "idle"
    /\ cls = "none"
    /\ batch = b
    /\ args = <<>>
    /\ input_ids = <<>>
    /\ attention_masks = <<>>
    /\ i = 0
    /\ output_logits = <<>>
    /\ calls = <<>>
    /\ result = <<>>
    /\ error = "none"
    /\ caller = [batch |-> b, original_prompts |-> <<>>]
    /\ \E path \in TokenizerPaths, loaded \in LoadedPadTokens :
         /\ init_args = [tokenizer_path |-> path, loaded_pad_token |-> loaded]
         /\ tokenizer = InitTokenizer(path, loaded)

Init == Constructed(<<>>)

Next ==
    \/ LLMForward_call
    \/ LLMForward_forward
    \/ LLMForwardMultiprocessing_call
    \/ LLMForwardMultiprocessing_forward
    \/ LLMForwardLight_call
    \/ LLMForwardLight_forward

Spec == Init /\ [][Next]_vars

(***************************************************************************)
(* The external model's generate: every output row is the input row        *)
(* followed by the new tokens; a row that ends early (</s>) is filled up    *)
(* with the pad token.                                                      *)
(***************************************************************************)
Continuations(pad) == << <<4, 5>>, <<5, 2>>, <<2, pad>>, <<6, 4>> >>

Continuation(seed, r, row, pad) ==
    Continuations(pad)[((seed + r + row[Rows(row) - 1]) % Len(Continuations(pad))) + 1]

ModelGenerate(seed, ids, pad) ==
    [r \in DOMAIN ids |->
        LET new == Continuation(seed, r, ids[r], pad)
        IN  [j \in 0 .. (Rows(ids[r]) + Len(new) - 1) |->
                IF j < Rows(ids[r]) THEN ids[r][j] ELSE new[j - Rows(ids[r]) + 1]]]

(***************************************************************************)
(* Generation drivers LLM and BatchLLM, and BatchLLMForward (__call__)     *)
(***************************************************************************)
BatchDrivers == {"LLM", "BatchLLM", "BatchLLMForward"}

\* the caller's prompt lists
Batches == UNION { [1 .. n -> Texts] : n \in 1 .. MaxBatch }

\* original_prompt: None (or the empty string) is <<>>
ExtraPrompts == Texts \cup {<<>>}

\* the longest prompt list a call is made with
MaxRows == MaxBatch + 1

\* the history of the caller after a __call__ with this original_prompt
Passed(original_prompt) ==
    IF original_prompt # <<>>
    THEN [caller EXCEPT !.original_prompts = Append(@, original_prompt)]
    ELSE caller

\* if original_prompt: batch.append(original_prompt)
AppendOriginalPromptFirst(b, original_prompt) ==
    IF original_prompt # <<>> THEN <<original_prompt>> \o b ELSE b

AppendOriginalPromptIfAbsent(b, original_prompt) ==
    IF original_prompt # <<>> /\ \A k \in 1 .. Len(b) : b[k] # original_prompt
    THEN Append(b, original_prompt)
    ELSE b

AppendOriginalPrompt(b, original_prompt) ==
    IF original_prompt # <<>> THEN Append(b, original_prompt) ELSE b

\* output[gen_start_idx[i]:] for every decoded output, with
\* gen_start_idx[i] = len(decode(batch_input_ids[i], skip_special_tokens=True))
TrimOutputsFirstOffset(batch_outputs, batch_input_ids) ==
    LET gen_start_idx == [k \in 1 .. Rows(batch_input_ids) |->
                             Len(Decode(batch_input_ids[0]))]
    IN  [k \in 1 .. Len(batch_outputs) |->
            SubSeq(batch_outputs[k], gen_start_idx[k] + 1, Len(batch_outputs[k]))]

TrimOutputs(batch_outputs, batch_input_ids) ==
    LET gen_start_idx == [k \in 1 .. Rows(batch_input_ids) |->
                             Len(Decode(batch_input_ids[k - 1]))]
    IN  [k \in 1 .. Len(batch_outputs) |->
            SubSeq(batch_outputs[k], gen_start_idx[k] + 1, Len(batch_outputs[k]))]

\* except RuntimeError as e: print(e); return []
LLM_exceptReraise == [pc |-> "raised", result |-> <<>>, error |-> "RuntimeError"]

LLM_except == [pc |-> "returned", result |-> <<>>, error |-> "none"]

BatchLLM_except == [pc |-> "returned", result |-> <<>>, error |-> "none"]

BatchLLMForward_except == [pc |-> "returned", result |-> <<>>, error |-> "none"]

LLM_call ==
    /\ pc = "idle"
    /\ \E nz \in NoiseArgs, original_prompt \in ExtraPrompts,
          outcome \in Outcomes, seed \in Seeds :
        LET batch1 == AppendOriginalPrompt(batch, original_prompt)
            batch_inputs == Tokenize(tokenizer, batch1)
            batch_input_ids == batch_inputs.input_ids
            outputs == IF outcome = "ok"
                       THEN ModelGenerate(seed, batch_input_ids,
                                          TokenId(tokenizer.pad_token))
                       ELSE <<>>
            call == [input_ids |-> batch_input_ids,
                     attention_mask |-> batch_inputs.attention_mask,
                     max_new_tokens |-> 100,
                     start_noise_idx |-> nz.start_noise_idx,
                     end_noise_idx |-> nz.end_noise_idx,
                     noise_scale |-> nz.noise_level,
                     outcome |-> outcome,
                     outputs |-> outputs]
            end == IF outcome = "ok"
                   THEN [pc |-> "returned",
                         result |-> TrimOutputs(BatchDecode(outputs), batch_input_ids),
                         error |-> "none"]
                   ELSE LLM_except
        IN  /\ Len(batch1) <= MaxRows
            /\ cls' = "LLM"
            /\ args' = [method |-> "__call__",
                        batch |-> batch,
                        start_noise_idx |-> nz.start_noise_idx,
                        end_noise_idx |-> nz.end_noise_idx,
                        noise_scale |-> nz.noise_level,
                        max_new_tokens |-> 100,
                        original_prompt |-> original_prompt]
            /\ batch' = batch1
            /\ caller' = Passed(original_prompt)
            /\ input_ids' = batch_input_ids
            /\ attention_masks' = batch_inputs.attention_mask
            /\ calls' = <<call>>
            /\ pc' = end.pc
            /\ result' = end.result
            /\ error' = end.error
    /\ UNCHANGED <<i, output_logits, tokenizer, init_args>>

\* the caller's noise windows: one [start, end) per prompt of its list
StartList(nz, n) == [k \in 1 .. n |-> nz.start_noise_idx]

EndList(nz, n) == [k \in 1 .. n |-> nz.end_noise_idx + k - 1]

BatchLLM_call ==
    /\ pc = "idle"
    /\ \E nz \in NoiseArgs, original_prompt \in ExtraPrompts,
          outcome \in Outcomes, seed \in Seeds :
        LET start_noise_idx_list == StartList(nz, Len(batch))
            end_noise_idx_list == EndList(nz, Len(batch))
            batch1 == AppendOriginalPrompt(batch, original_prompt)
            batch_inputs == Tokenize(tokenizer, batch1)
            batch_input_ids == batch_inputs.input_ids
            outputs == IF outcome = "ok"
                       THEN ModelGenerate(seed, batch_input_ids,
                                          TokenId(tokenizer.pad_token))
                       ELSE <<>>
            call == [input_ids |-> batch_input_ids,
                     attention_mask |-> batch_inputs.attention_mask,
                     max_new_tokens |-> 100,
                     start_noise_idx_list |-> start_noise_idx_list,
                     end_noise_idx_list |-> end_noise_idx_list,
                     noise_scale |-> nz.noise_level,
                     outcome |-> outcome,
                     outputs |-> outputs]
            end == IF outcome = "ok"
                   THEN [pc |-> "returned",
                         result |-> TrimOutputs(BatchDecode(outputs), batch_input_ids),
                         error |-> "none"]
                   ELSE BatchLLM_except
        IN  /\ Len(batch1) <= MaxRows
            /\ cls' = "BatchLLM"
            /\ args' = [method |-> "__call__",
                        batch |-> batch,
                        start_noise_idx_list |-> start_noise_idx_list,
                        end_noise_idx_list |-> end_noise_idx_list,
                        noise_scale |-> nz.noise_level,
                        max_new_tokens |-> 100,
                        original_prompt |-> original_prompt]
            /\ batch' = batch1
            /\ caller' = Passed(original_prompt)
            /\ input_ids' = batch_input_ids
            /\ attention_masks' = batch_inputs.attention_mask
            /\ calls' = <<call>>
            /\ pc' = end.pc
            /\ result' = end.result
            /\ error' = end.error
    /\ UNCHANGED <<i, output_logits, tokenizer, init_args>>

BatchLLMForward_call ==
    /\ pc = "idle"
    /\ \E nz \in NoiseArgs, original_prompt \in ExtraPrompts,
          outcome \in Outcomes, seed \in Seeds :
        LET start_noise_idx_list == StartList(nz, Len(batch))
            end_noise_idx_list == EndList(nz, Len(batch))
            batch1 == AppendOriginalPrompt(batch, original_prompt)
            batch_inputs == Tokenize(tokenizer, batch1)
            batch_input_ids == batch_inputs.input_ids
            call == [input_ids |-> batch_input_ids,
                     attention_mask |-> batch_inputs.attention_mask,
                     start_noise_idx_list |-> start_noise_idx_list,
                     end_noise_idx_list |-> end_noise_idx_list,
                     noise_scale |-> nz.noise_level,
                     outcome |-> outcome,
                     logits |-> IF outcome = "ok"
                                THEN ModelForward(seed, batch_input_ids)
                                ELSE <<>>]
            end == IF outcome = "ok"
                   THEN [pc |-> "returned", result |-> call.logits, error |-> "none"]
                   ELSE BatchLLMForward_except
        IN  /\ Len(batch1) <= MaxRows
            /\ cls' = "BatchLLMForward"
            /\ args' = [method |-> "__call__",
                        batch |-> batch,
                        start_noise_idx_list |-> start_noise_idx_list,
                        end_noise_idx_list |-> end_noise_idx_list,
                        noise_scale |-> nz.noise_level,
                        max_new_tokens |-> 100,
                        original_prompt |-> original_prompt]
            /\ batch' = batch1
            /\ caller' = Passed(original_prompt)
            /\ input_ids' = batch_input_ids
            /\ attention_masks' = batch_inputs.attention_mask
            /\ calls' = <<call>>
            /\ pc' = end.pc
            /\ result' = end.result
            /\ error' = end.error
    /\ UNCHANGED <<i, output_logits, tokenizer, init_args>>

\* the call is over: its locals are gone, the caller keeps its prompt list
\* (as the call left it) and may call again
Return ==
    /\ pc = "returned"
    /\ pc' = "idle"
    /\ cls' = "none"
    /\ args' = <<>>
    /\ input_ids' = <<>>
    /\ attention_masks' = <<>>
    /\ i' = 0
    /\ output_logits' = <<>>
    /\ calls' = <<>>
    /\ result' = <<>>
    /\ UNCHANGED <<batch, tokenizer, init_args, caller, error>>

InitGen == \E b \in Batches : Constructed(b)

NextGen ==
    \/ LLM_call
    \/ BatchLLM_call
    \/ BatchLLMForward_call
    \/ Return

SpecGen == InitGen /\ [][NextGen]_vars

(***************************************************************************)
(* get_probs.  The forward pass without noise returns small logits; a      *)
(* probability is the exact fraction <<numerator, denominator>> of the     *)
(* normalised exponential, taken to base 2 so that it stays an integer.    *)
(***************************************************************************)
SmallLogit(seed, r, j, v, tok) == (seed + r + 2 * j + v * (tok + 1)) % 3

ModelForwardNoNoise(seed, ids) ==
    [r \in DOMAIN ids |->
        [j \in DOMAIN ids[r] |->
            [v \in Vocab |-> SmallLogit(seed, r, j, v, ids[r][j])]]]

RECURSIVE Pow2(_)
Pow2(x) == IF x = 0 THEN 1 ELSE 2 * Pow2(x - 1)

RECURSIVE SumPow2(_, _)
SumPow2(row, v) == IF v < 0 THEN 0 ELSE Pow2(row[v]) + SumPow2(row, v - 1)

\* torch.softmax(logits, dim=-1)
Softmax(logits) ==
    [r \in DOMAIN logits |->
        [j \in DOMAIN logits[r] |->
            [v \in Vocab |->
                <<Pow2(logits[r][j][v]), SumPow2(logits[r][j], VocabSize - 1)>>]]]

\* the value 1 of torch.ones_like(..., dtype=torch.float)
One == <<1, 1>>

\* the caller's prompt lists for get_probs: also the list of one empty prompt,
\* whose row holds <s> alone
ProbeBatches == Batches \cup { << <<>> >> }

\* for i: selected_probs[i, 1:] = prob[range(prob.shape[0]-1), input_ids[1:]]
LLM_selected_probs_unshifted(batch_input_ids, probs) ==
    [r \in DOMAIN batch_input_ids |->
        [j \in DOMAIN batch_input_ids[r] |->
            IF j = 0 THEN One ELSE probs[r][j][batch_input_ids[r][j]]]]

LLM_selected_probs(batch_input_ids, probs) ==
    [r \in DOMAIN batch_input_ids |->
        [j \in DOMAIN batch_input_ids[r] |->
            IF j = 0 THEN One ELSE probs[r][j - 1][batch_input_ids[r][j]]]]

BatchLLM_selected_probs(batch_input_ids, probs) ==
    [r \in DOMAIN batch_input_ids |->
        [j \in DOMAIN batch_input_ids[r] |->
            IF j = 0 THEN One ELSE probs[r][j - 1][batch_input_ids[r][j]]]]

BatchLLMForward_selected_probs(batch_input_ids, probs) ==
    [r \in DOMAIN batch_input_ids |->
        [j \in DOMAIN batch_input_ids[r] |->
            IF j = 0 THEN One ELSE probs[r][j - 1][batch_input_ids[r][j]]]]

\* selected_probs[:, 1:] = probs[0, range(probs.shape[1] - 1), input_ids[0, 1:]]:
\* the right-hand side is read from row 0 and broadcast over the rows
LLMForward_selected_probs(ids, probs) ==
    [r \in DOMAIN ids |->
        [j \in DOMAIN ids[r] |->
            IF j = 0 THEN One ELSE probs[0][j - 1][ids[0][j]]]]

LLMForwardMultiprocessing_selected_probs(ids, probs) ==
    [r \in DOMAIN ids |->
        [j \in DOMAIN ids[r] |->
            IF j = 0 THEN One ELSE probs[0][j - 1][ids[0][j]]]]

LLMForwardLight_selected_probs(ids, probs) ==
    [r \in DOMAIN ids |->
        [j \in DOMAIN ids[r] |->
            IF j = 0 THEN One ELSE probs[0][j - 1][ids[0][j]]]]

\* the one self.model(input_ids, attention_mask=...) call of get_probs
ScoreCall(ids, mask, seed) ==
    [input_ids |-> ids,
     attention_mask |-> mask,
     outcome |-> "ok",
     logits |-> ModelForwardNoNoise(seed, ids)]

\* what every get_probs leaves behind, given its class, arguments and value
GetProbsDone(c, a, ids, mask, call, selected_probs) ==
    /\ cls' = c
    /\ args' = a
    /\ input_ids' = ids
    /\ attention_masks' = mask
    /\ calls' = <<call>>
    /\ result' = selected_probs
    /\ pc' = "returned"
    /\ UNCHANGED <<batch, i, output_logits, tokenizer, init_args, caller, error>>

LLM_get_probs ==
    /\ pc = "idle"
    /\ \E nz \in NoiseArgs, seed \in Seeds :
        LET batch_inputs == Tokenize(tokenizer, batch)
            call == ScoreCall(batch_inputs.input_ids, batch_inputs.attention_mask, seed)
            probs == Softmax(call.logits)
        IN  GetProbsDone("LLM",
                [method |-> "get_probs", batch |-> batch,
                 start_noise_idx |-> nz.start_noise_idx,
                 end_noise_idx |-> nz.end_noise_idx],
                batch_inputs.input_ids, batch_inputs.attention_mask, call,
                LLM_selected_probs(batch_inputs.input_ids, probs))

BatchLLM_get_probs ==
    /\ pc = "idle"
    /\ \E nz \in NoiseArgs, seed \in Seeds :
        LET batch_inputs == Tokenize(tokenizer, batch)
            call == ScoreCall(batch_inputs.input_ids, batch_inputs.attention_mask, seed)
            probs == Softmax(call.logits)
        IN  GetProbsDone("BatchLLM",
                [method |-> "get_probs", batch |-> batch,
                 start_noise_idx |-> nz.start_noise_idx,
                 end_noise_idx |-> nz.end_noise_idx],
                batch_inputs.input_ids, batch_inputs.attention_mask, call,
                BatchLLM_selected_probs(batch_inputs.input_ids, probs))

BatchLLMForward_get_probs ==
    /\ pc = "idle"
    /\ \E nz \in NoiseArgs, seed \in Seeds :
        LET batch_inputs == Tokenize(tokenizer, batch)
            call == ScoreCall(batch_inputs.input_ids, batch_inputs.attention_mask, seed)
            probs == Softmax(call.logits)
        IN  GetProbsDone("BatchLLMForward",
                [method |-> "get_probs", batch |-> batch,
                 start_noise_idx |-> nz.start_noise_idx,
                 end_noise_idx |-> nz.end_noise_idx],
                batch_inputs.input_ids, batch_inputs.attention_mask, call,
                BatchLLMForward_selected_probs(batch_inputs.input_ids, probs))

\* the tokenized-input variants are handed the tokenization of the caller's list
LLMForward_get_probs ==
    /\ pc = "idle"
    /\ \E seed \in Seeds :
        LET tokenized_input == Tokenize(tokenizer, batch)
            call == ScoreCall(tokenized_input.input_ids,
                              tokenized_input.attention_mask, seed)
            probs == Softmax(call.logits)
        IN  GetProbsDone("LLMForward",
                [method |-> "get_probs", tokenized_input |-> tokenized_input],
                tokenized_input.input_ids, tokenized_input.attention_mask, call,
                LLMForward_selected_probs(tokenized_input.input_ids, probs))

LLMForwardMultiprocessing_get_probs ==
    /\ pc = "idle"
    /\ \E seed \in Seeds :
        LET tokenized_input == Tokenize(tokenizer, batch)
            call == ScoreCall(tokenized_input.input_ids,
                              tokenized_input.attention_mask, seed)
            probs == Softmax(call.logits)
        IN  GetProbsDone("LLMForwardMultiprocessing",
                [method |-> "get_probs", tokenized_input |-> tokenized_input],
                tokenized_input.input_ids, tokenized_input.attention_mask, call,
                LLMForwardMultiprocessing_selected_probs(tokenized_input.input_ids,
                                                         probs))

LLMForwardLight_get_probs ==
    /\ pc = "idle"
    /\ \E seed \in Seeds :
        LET tokenized_input == Tokenize(tokenizer, batch)
            call == ScoreCall(tokenized_input.input_ids,
                              tokenized_input.attention_mask, seed)
            probs == Softmax(call.logits)
        IN  GetProbsDone("LLMForwardLight",
                [method |-> "get_probs", tokenized_input |-> tokenized_input],
                tokenized_input.input_ids, tokenized_input.attention_mask, call,
                LLMForwardLight_selected_probs(tokenized_input.input_ids, probs))

InitProbs == \E b \in ProbeBatches : Constructed(b)

NextProbs ==
    \/ LLM_get_probs
    \/ BatchLLM_get_probs
    \/ BatchLLMForward_get_probs
    \/ LLMForward_get_probs
    \/ LLMForwardMultiprocessing_get_probs
    \/ LLMForwardLight_get_probs

SpecProbs == InitProbs /\ [][NextProbs]_vars

(***************************************************************************)
(* Properties of the replicated forward drivers (checked under Spec)       *)
(***************************************************************************)
\* some call to the underlying model raised a RuntimeError
Failed == \E p \in 1 .. Len(calls) : calls[p].outcome = "RuntimeError"

\* what one chunk contributes to the returned value
ChunkResult(call) ==
    IF cls = "LLMForward" THEN call.logits
    ELSE IF cls = "LLMForwardMultiprocessing"
    THEN LLMForwardMultiprocessing_get_answer_choice_logits(
             call.logits, args.answer_token_ids)
    ELSE LLMForwardLight_get_answer_choice_logits(
             call.logits, args.answer_token_ids)

\* C1: for num_copies >= forward_batch_size >= 1, a successful call of a
\* replicated forward driver makes exactly floor(num_copies / forward_batch_size)
\* forward passes and returns exactly that many times forward_batch_size rows:
\* a final partial chunk is dropped.
C1_PartialChunkDropped ==
    ( /\ cls \in ReplicatedDrivers
      /\ pc = "returned"
      /\ ~Failed
      /\ args.forward_batch_size >= 1
      /\ args.num_copies >= args.forward_batch_size )
    => /\ Len(calls) = args.num_copies \div args.forward_batch_size
       /\ Rows(result) =
            (args.num_copies \div args.forward_batch_size) * args.forward_batch_size

C1_Witness ==
    /\ cls \in ReplicatedDrivers
    /\ pc = "returned"
    /\ ~Failed
    /\ args.num_copies = 3
    /\ args.forward_batch_size = 2
    /\ Len(calls) = 1
    /\ Rows(result) = 2

\* C2: when num_copies is a multiple of forward_batch_size, a successful call
\* returns num_copies rows; every row fed to the model is a copy of the single
\* input row; pass p carries replicas (p-1)*s .. p*s-1; and output row k is the
\* result computed for replica k.
C2_ReplicaOrderPreserved ==
    ( /\ cls \in ReplicatedDrivers
      /\ pc = "returned"
      /\ ~Failed
      /\ args.num_copies >= args.forward_batch_size
      /\ args.num_copies % args.forward_batch_size = 0 )
    => LET s == args.forward_batch_size
       IN  /\ Rows(result) = args.num_copies
           /\ \A p \in 1 .. Len(calls) :
                /\ calls[p].rows = <<(p - 1) * s, p * s>>
                /\ Rows(calls[p].input_ids) = s
                /\ \A r \in DOMAIN calls[p].input_ids :
                     calls[p].input_ids[r] = args.tokenized_input.input_ids[0]
           /\ \A k \in 0 .. (args.num_copies - 1) :
                result[k] = ChunkResult(calls[(k \div s) + 1])[k % s]

C2_Witness ==
    /\ cls \in ReplicatedDrivers
    /\ pc = "returned"
    /\ ~Failed
    /\ args.num_copies = 4
    /\ args.forward_batch_size = 2
    /\ Rows(result) = 4
    /\ result[0] # result[2]
    /\ result[0] # result[1]

\* C3: in the replicated forward drivers, when the forward pass of chunk i
\* raises a RuntimeError the call returns the empty sequence, and that pass is
\* the last one issued.
C3_FailureReturnsEmpty ==
    (cls \in ReplicatedDrivers /\ Failed)
    => /\ pc = "returned"
       /\ result = <<>>
       /\ \A p \in 1 .. Len(calls) :
            calls[p].outcome = "RuntimeError" => p = Len(calls)

\* C5: in every driver class, a RuntimeError of the underlying model call never
\* leaves __call__: the call returns, with the empty result.
C5_FailureNeverRaises ==
    Failed => (pc = "returned" /\ error = "none" /\ result = <<>>)

(***************************************************************************)
(* Properties of the generation drivers (checked under SpecGen)            *)
(***************************************************************************)
\* the ids of row r of a model call that are not padding, as a sequence
RealIds(call, r) ==
    LET row == call.input_ids[r]
        pads == Cardinality({j \in DOMAIN row : call.attention_mask[r][j] = 0})
    IN  [k \in 1 .. (Rows(row) - pads) |-> row[pads + k - 1]]

\* the tokens generate added to row r, as a sequence
NewIds(call, r) ==
    LET old == Rows(call.input_ids[r])
    IN  [k \in 1 .. (Rows(call.outputs[r]) - old) |-> call.outputs[r][old + k - 1]]

\* C4: in LLM.__call__ and BatchLLM.__call__, a RuntimeError raised by
\* generate is caught: the call returns the empty sequence, no exception
\* reaches the caller and no partial continuations are returned.
C4_GenerateFailureReturnsEmpty ==
    (cls \in {"LLM", "BatchLLM"} /\ Failed)
    => /\ pc = "returned"
       /\ result = <<>>
       /\ error = "none"

C4_Witness ==
    /\ cls = "BatchLLM"
    /\ Failed
    /\ pc = "returned"
    /\ result = <<>>
    /\ Len(args.batch) = 2

\* C6: a successful call of LLM or BatchLLM with a non-empty original_prompt
\* returns exactly one entry more than the call without it returns (one per
\* prompt of the caller's list); the extra entry is last and is the
\* continuation of original_prompt; the entries of the caller's prompts keep
\* their order.
C6_ExtraPromptAddsLastEntry ==
    ( /\ cls \in {"LLM", "BatchLLM"}
      /\ pc = "returned"
      /\ ~Failed
      /\ args.original_prompt # <<>> )
    => LET n == Len(args.batch)
           without == Tokenize(tokenizer, args.batch)
       IN  /\ Len(result) = Rows(without.input_ids) + 1
           /\ Len(result) = n + 1
           /\ RealIds(calls[1], n) = Encode(args.original_prompt)
           /\ result[n + 1] = DecodeSeq(NewIds(calls[1], n))
           /\ \A k \in 1 .. n :
                /\ RealIds(calls[1], k - 1) = Encode(args.batch[k])
                /\ result[k] = DecodeSeq(NewIds(calls[1], k - 1))

C6_Witness ==
    /\ cls = "LLM"
    /\ pc = "returned"
    /\ ~Failed
    /\ args.original_prompt # <<>>
    /\ Len(args.batch) = 2
    /\ Len(result) = 3
    /\ args.batch[1] # args.batch[2]
    /\ result[3] # result[1]
    /\ result[1] # result[2]

\* C10: in every call of BatchLLM.__call__, with or without original_prompt,
\* generate receives exactly one noise window per row of input_ids.
C10_OneWindowPerRow ==
    (cls = "BatchLLM" /\ Len(calls) >= 1)
    => /\ Len(calls[1].start_noise_idx_list) = Rows(calls[1].input_ids)
       /\ Len(calls[1].end_noise_idx_list) = Rows(calls[1].input_ids)

(***************************************************************************)
(* Properties of get_probs (checked under SpecProbs)                       *)
(***************************************************************************)
\* the softmax probability at [r, j, v] of the logits the model returned
ProbAt(r, j, v) ==
    LET row == calls[1].logits[r][j]
    IN  <<Pow2(row[v]), SumPow2(row, VocabSize - 1)>>

\* C7: in get_probs of LLM, BatchLLM and BatchLLMForward, for every row r and
\* position j >= 1 the selected probability is the softmax probability at
\* [r, j-1, input_ids[r, j]], and position 0 holds 1 in every row, also when
\* the rows have length 1.
C7_ShiftByOneEveryRow ==
    ( /\ cls \in BatchDrivers
      /\ pc = "returned"
      /\ args.method = "get_probs" )
    => /\ DOMAIN result = DOMAIN input_ids
       /\ \A r \in DOMAIN input_ids :
            /\ DOMAIN result[r] = DOMAIN input_ids[r]
            /\ result[r][0] = One
            /\ \A j \in 1 .. (Rows(input_ids[r]) - 1) :
                 result[r][j] = ProbAt(r, j - 1, input_ids[r][j])

C7_Witness ==
    /\ cls = "BatchLLM"
    /\ pc = "returned"
    /\ args.method = "get_probs"
    /\ Rows(input_ids) = 2
    /\ Rows(input_ids[0]) = 3
    /\ attention_masks[0][0] = 0
    /\ result[0] # result[1]
    /\ result[1][2] # One
    /\ result[1][2] # result[1][1]

C7_WitnessLengthOne ==
    /\ cls = "LLM"
    /\ pc = "returned"
    /\ args.method = "get_probs"
    /\ Rows(input_ids[0]) = 1
    /\ result[0][0] = One

\* C8: in get_probs of LLMForward, LLMForwardMultiprocessing and
\* LLMForwardLight, for an input of any number of rows, every row r and every
\* j >= 1 has the softmax probability at [r, j-1, input_ids[r, j]], computed
\* from row r's own distribution and row r's own token ids.
C8_ShiftByOneOwnRow ==
    ( /\ cls \in ReplicatedDrivers
      /\ pc = "returned"
      /\ args.method = "get_probs" )
    => \A r \in DOMAIN input_ids :
          \A j \in 1 .. (Rows(input_ids[r]) - 1) :
              result[r][j] = ProbAt(r, j - 1, input_ids[r][j])

(***************************************************************************)
(* Properties of _get_answer_choice_logits (checked under Spec, where the  *)
(* chunk loop applies it to the logits of every pass)                      *)
(***************************************************************************)
ProjectingDrivers == {"LLMForwardMultiprocessing", "LLMForwardLight"}

\* the logit of row r of pass p at the final position for token id tok
LastLogit(p, r, tok) ==
    LET row == calls[p].logits[r]
    IN  row[Rows(row) - 1][tok]

\* C9 (as stated): the projection of pass p has shape [rows, len(ids)], and
\* its entry [r, k] is the logit of row r at the final position for token id
\* answer_token_ids[k], in the caller's order.
C9_EntryIsTheLogit ==
    (cls \in ProjectingDrivers /\ args.method = "__call__")
    => \A p \in 1 .. Len(output_logits) :
          /\ Rows(output_logits[p]) = Rows(calls[p].logits)
          /\ \A r \in DOMAIN output_logits[p] :
               /\ Rows(output_logits[p][r]) = Len(args.answer_token_ids)
               /\ \A k \in 0 .. (Len(args.answer_token_ids) - 1) :
                    output_logits[p][r][k] = LastLogit(p, r, args.answer_token_ids[k + 1])

\* C9 (amended): the same, with every entry converted to float16: entry
\* [r, k] is the float16 nearest to the logit of row r at the final position
\* for token id answer_token_ids[k]; order kept, nothing sorted or
\* deduplicated, no other position read.
C9_EntryIsTheLogitAsFloat16 ==
    (cls \in ProjectingDrivers /\ args.method = "__call__")
    => \A p \in 1 .. Len(output_logits) :
          /\ Rows(output_logits[p]) = Rows(calls[p].logits)
          /\ \A r \in DOMAIN output_logits[p] :
               /\ Rows(output_logits[p][r]) = Len(args.answer_token_ids)
               /\ \A k \in 0 .. (Len(args.answer_token_ids) - 1) :
                    output_logits[p][r][k] =
                        Float16(LastLogit(p, r, args.answer_token_ids[k + 1]))

C9_Witness ==
    /\ cls \in ProjectingDrivers
    /\ args.method = "__call__"
    /\ args.answer_token_ids = <<5, 6, 2>>
    /\ Len(output_logits) >= 1
    /\ Rows(calls[1].logits[0]) >= 2
    /\ output_logits[1][0][0] # output_logits[1][0][1]
    /\ output_logits[1][0][1] # output_logits[1][0][2]
    /\ output_logits[1][0][0] = Float16(LastLogit(1, 0, 5))
    /\ LastLogit(1, 0, 5) # calls[1].logits[0][0][5]

\* C11 (as stated): the driver's pad token is the tokenizer's explicit pad
\* token when the loaded tokenizer has one; otherwise the unknown token when
\* the path names a LLaMA family; otherwise the end-of-sequence token.  A
\* LLaMA-family tokenizer with an explicit pad token keeps it, and nothing
\* after __init__ changes the choice.
C11_ExplicitPadTokenKept ==
    tokenizer.pad_token =
        IF init_args.loaded_pad_token # "None" THEN init_args.loaded_pad_token
        ELSE IF PathNamesLlama(init_args.tokenizer_path) THEN tokenizer.unk_token
        ELSE tokenizer.eos_token

GenerationDrivers == {"LLM", "BatchLLM"}

\* the decoded text of row r of a batch of ids (special tokens skipped)
DecodedRow(ids, r) == DecodeSeq([j \in 1 .. Rows(ids[r]) |-> ids[r][j - 1]])

\* C12: a successful __call__ of a generation driver returns one string per
\* row of the tokenized batch, in batch order; entry k is the decoded output
\* of row k without its first L_k characters, L_k being the length of the
\* decoding of row k's own input ids: what is left is exactly the text that
\* follows the decoded prompt of the same row.
C12_TrimByOwnRowOffset ==
    (cls \in GenerationDrivers /\ args.method = "__call__"
        /\ pc = "returned" /\ calls[1].outcome = "ok")
    => /\ Len(result) = Rows(calls[1].input_ids)
       /\ Len(result) = Len(batch)
       /\ \A k \in 1 .. Len(result) :
            LET out == DecodedRow(calls[1].outputs, k - 1)
                L == Len(DecodedRow(calls[1].input_ids, k - 1))
            IN  /\ result[k] = SubSeq(out, L + 1, Len(out))
                /\ Len(result[k]) = Len(out) - L
                /\ DecodedRow(calls[1].input_ids, k - 1) \o result[k] = out

\* two rows with different offsets, each trimmed by its own
C12_Witness ==
    /\ cls \in GenerationDrivers
    /\ args.method = "__call__"
    /\ pc = "returned"
    /\ calls[1].outcome = "ok"
    /\ Len(result) = 2
    /\ Len(DecodedRow(calls[1].input_ids, 0)) < Len(DecodedRow(calls[1].input_ids, 1))
    /\ result[1] # <<>>
    /\ result[2] # <<>>
    /\ result[1] # result[2]

\* C13: in a replicated forward driver every step that issues a forward pass
\* issues exactly one, for the chunk whose index is the number of passes
\* already made, and only when the result of every earlier pass has been
\* appended; the pass receives at most forward_batch_size rows, and carries
\* the noise window and the noise level of the caller's arguments.
C13_SequentialBoundedSameNoise ==
    [][ (calls' # calls)
        => /\ cls \in ReplicatedDrivers
           /\ Len(output_logits) = Len(calls)
           /\ i = Len(calls)
           /\ Len(calls') = Len(calls) + 1
           /\ SubSeq(calls', 1, Len(calls)) = calls
           /\ args' = args
           /\ LET c == calls'[Len(calls')]
                  s == args.forward_batch_size
              IN  /\ c.rows = <<Len(calls) * s, (Len(calls) + 1) * s>>
                  /\ Rows(c.input_ids) <= s
                  /\ c.input_ids = PySlice(input_ids, c.rows[1], c.rows[2])
                  /\ c.start_noise_idx = args.start_noise_idx
                  /\ c.end_noise_idx = args.end_noise_idx
                  /\ c.noise_level = args.noise_level ]_vars

\* three passes of one call, made one after the other on a window that does
\* not start at 0
C13_Witness ==
    /\ cls \in ReplicatedDrivers
    /\ args.method = "__call__"
    /\ args.num_copies = 3
    /\ args.forward_batch_size = 1
    /\ args.start_noise_idx = 1
    /\ Len(calls) = 3
    /\ Len(output_logits) = 3
    /\ \A p \in 1 .. 3 :
         /\ calls[p].rows = <<p - 1, p>>
         /\ calls[p].start_noise_idx = 1
         /\ calls[p].end_noise_idx = 2
         /\ calls[p].noise_level = 2

\* C14: __call__ of LLM, BatchLLM and BatchLLMForward appends a non-empty
\* original_prompt to the caller's own list, before tokenizing and before the
\* model call: when the call is over, with its result or with the empty
\* failure result, the list is the list passed in plus that one entry, and
\* the tokenized batch had a row for it.  Over successive calls the list is
\* the caller's first list followed by every original_prompt passed since.
C14_CallerListGrowsInPlace ==
    /\ batch = caller.batch \o caller.original_prompts
    /\ (cls \in BatchDrivers /\ args.method = "__call__" /\ pc = "returned")
       => /\ batch = IF args.original_prompt # <<>>
                     THEN args.batch \o <<args.original_prompt>>
                     ELSE args.batch
          /\ Len(calls) = 1
          /\ Rows(calls[1].input_ids) = Len(batch)
          /\ \A k \in 1 .. Len(batch) :
               RealIds(calls[1], k - 1) = Encode(batch[k])

\* the second of two calls with the same original_prompt on the same list
\* has failed: the list holds the prompt twice after its first entry
C14_Witness ==
    /\ cls \in BatchDrivers
    /\ args.method = "__call__"
    /\ pc = "returned"
    /\ Failed
    /\ result = <<>>
    /\ Len(caller.batch) = 1
    /\ Len(caller.original_prompts) = 2
    /\ caller.original_prompts[1] = caller.original_prompts[2]
    /\ Len(args.batch) = 2
    /\ Len(batch) = 3
    /\ batch[2] = batch[3]

\* the drivers whose chunk loop catches the RuntimeError of a forward pass
CatchingDrivers == {"LLMForward", "LLMForwardMultiprocessing"}

\* C15: in a replicated forward driver called with
\* 0 <= num_copies < forward_batch_size no forward pass is issued and the call
\* does not return: the RuntimeError of the concatenation reaches the caller.
\* So LLMForward and LLMForwardMultiprocessing return the empty sequence only
\* when a forward pass raised a RuntimeError.
C15_ZeroChunksRaise ==
    /\ ( /\ cls \in ReplicatedDrivers
         /\ args.method = "__call__"
         /\ args.num_copies < args.forward_batch_size )
       => /\ NumChunks(args.num_copies, args.forward_batch_size) = 0
          /\ calls = <<>>
          /\ output_logits = <<>>
          /\ pc = "raised"
          /\ error = "RuntimeError"
          /\ result = <<>>
    /\ ( /\ cls \in CatchingDrivers
         /\ args.method = "__call__"
         /\ pc = "returned"
         /\ result = <<>> )
       => /\ Failed
          /\ calls[Len(calls)].outcome = "RuntimeError"

C15_Witness ==
    /\ cls = "LLMForwardMultiprocessing"
    /\ args.method = "__call__"
    /\ args.num_copies = 1
    /\ args.forward_batch_size = 2
    /\ Rows(input_ids) = 1
    /\ calls = <<>>
    /\ pc = "raised"
    /\ error = "RuntimeError"

====
